---- MODULE Spec2Model ----
(***************************************************************************)
(* The 2048 rule engine of src/src/lib.rs: the grid, the four directional  *)
(* moves with their merge-tracking matrix, the terminal-state detector,    *)
(* the tile spawner, restart and the key handler.                          *)
(*                                                                         *)
(* Indices are 0-based as in the source: grid[i][j] is row i, column j.    *)
(***************************************************************************)
EXTENDS Integers, FiniteSets, Sequences, TLC

(* pub const GRID_SIZE: u32 = 4 *)
GRID_SIZE == 4

(* ---- bounds of the explored inputs ---- *)
(* tiles of the generated grids are 2^1 .. 2^MaxExp *)
MaxExp == 3
(* at most MaxCalls successive calls of move_tiles / add_random_tile are explored *)
MaxCalls == 2
(* at most MaxTurns key events that change the grid are explored *)
MaxTurns == 1
(* at most MaxApiCalls calls of move_tiles / add_random_tile after new() are explored *)
MaxApiCalls == 1
(* a play is followed while the sum of its tiles is below MaxSum *)
MaxSum == 50

VARIABLES
    grid,       \* GameState.grid
    game_over,  \* GameState.game_over
    op,         \* the last operation called: "init", "move", "spawn", "restart", "key"
    arg,        \* its argument: a direction, a key, or "none"
    ret,        \* the boolean the last move_tiles call returned (FALSE when none ran)
    merged,     \* the merge-tracking matrix as the last move_tiles call left it
    pre,        \* the grid before the last operation
    pre_over,   \* game_over before the last operation
    prev,       \* when the last operation was move_tiles: summary of the one before it
    calls       \* number of operations counted against MaxCalls / MaxTurns so far

vars == <<grid, game_over, op, arg, ret, merged, pre, pre_over, prev, calls>>

Idx == 0 .. (GRID_SIZE - 1)

Cells == Idx \X Idx

(* [[0; GRID_SIZE]; GRID_SIZE] *)
ZeroGrid == [i \in Idx |-> [j \in Idx |-> 0]]

(* [[false; GRID_SIZE]; GRID_SIZE] *)
NoMerged == [i \in Idx |-> [j \in Idx |-> FALSE]]

Direction == {"Up", "Down", "Left", "Right"}

(* ---------------------------------------------------------------------- *)
(* move_right                                                              *)
(* ---------------------------------------------------------------------- *)

RECURSIVE slide_right_nomergeflag(_, _, _)
(* mutant of slide_right: the merged flag is not consulted *)
slide_right_nomergeflag(st, i, col) ==
    IF col < GRID_SIZE - 1
    THEN IF st.grid[i][col + 1] = 0
         THEN slide_right_nomergeflag(
                  [st EXCEPT !.grid[i][col + 1] = st.grid[i][col],
                             !.grid[i][col] = 0,
                             !.moved = TRUE], i, col + 1)
         ELSE IF st.grid[i][col + 1] = st.grid[i][col]
              THEN [st EXCEPT !.grid[i][col + 1] = @ * 2,
                              !.grid[i][col] = 0,
                              !.merged[i][col + 1] = TRUE,
                              !.moved = TRUE]
              ELSE st
    ELSE st

RECURSIVE slide_right_nomoved(_, _, _)
(* mutant of slide_right: a plain slide does not record "moved" *)
slide_right_nomoved(st, i, col) ==
    IF col < GRID_SIZE - 1
    THEN IF st.grid[i][col + 1] = 0
         THEN slide_right_nomoved(
                  [st EXCEPT !.grid[i][col + 1] = st.grid[i][col],
                             !.grid[i][col] = 0], i, col + 1)
         ELSE IF st.grid[i][col + 1] = st.grid[i][col] /\ ~st.merged[i][col + 1]
              THEN [st EXCEPT !.grid[i][col + 1] = @ * 2,
                              !.grid[i][col] = 0,
                              !.merged[i][col + 1] = TRUE,
                              !.moved = TRUE]
              ELSE st
    ELSE st

RECURSIVE slide_right_keepsource(_, _, _)
(* mutant of slide_right: a merge does not clear the source cell *)
slide_right_keepsource(st, i, col) ==
    IF col < GRID_SIZE - 1
    THEN IF st.grid[i][col + 1] = 0
         THEN slide_right_keepsource(
                  [st EXCEPT !.grid[i][col + 1] = st.grid[i][col],
                             !.grid[i][col] = 0,
                             !.moved = TRUE], i, col + 1)
         ELSE IF st.grid[i][col + 1] = st.grid[i][col] /\ ~st.merged[i][col + 1]
              THEN [st EXCEPT !.grid[i][col + 1] = @ * 2,
                              !.merged[i][col + 1] = TRUE,
                              !.moved = TRUE]
              ELSE st
    ELSE st

(* mutant of slide_right: "if" for "while", the tile advances one step only *)
slide_right_onestep(st, i, col) ==
    IF col < GRID_SIZE - 1
    THEN IF st.grid[i][col + 1] = 0
         THEN [st EXCEPT !.grid[i][col + 1] = st.grid[i][col],
                         !.grid[i][col] = 0,
                         !.moved = TRUE]
         ELSE IF st.grid[i][col + 1] = st.grid[i][col] /\ ~st.merged[i][col + 1]
              THEN [st EXCEPT !.grid[i][col + 1] = @ * 2,
                              !.grid[i][col] = 0,
                              !.merged[i][col + 1] = TRUE,
                              !.moved = TRUE]
              ELSE st
    ELSE st

RECURSIVE slide_right(_, _, _)
(* the while loop of move_right: slide the tile at (i, col) as far right as
   possible; st is the function's local state [grid, merged, moved] *)
slide_right(st, i, col) ==
    IF col < GRID_SIZE - 1
    THEN IF st.grid[i][col + 1] = 0
         THEN slide_right(
                  [st EXCEPT !.grid[i][col + 1] = st.grid[i][col],
                             !.grid[i][col] = 0,
                             !.moved = TRUE], i, col + 1)
         ELSE IF st.grid[i][col + 1] = st.grid[i][col] /\ ~st.merged[i][col + 1]
              THEN [st EXCEPT !.grid[i][col + 1] = @ * 2,
                              !.grid[i][col] = 0,
                              !.merged[i][col + 1] = TRUE,
                              !.moved = TRUE]
              ELSE st
    ELSE st

RECURSIVE scan_right_forwards(_, _, _)
(* mutant of scan_right: ".rev()" dropped, the columns are visited from
   column 0 on *)
scan_right_forwards(st, i, j) ==
    IF j < 0 THEN st
    ELSE LET rest == scan_right_forwards(st, i, j - 1)
         IN  IF rest.grid[i][j] # 0 THEN slide_right(rest, i, j) ELSE rest

RECURSIVE scan_right(_, _, _)
(* for j in (0..GRID_SIZE - 1).rev(): here from j down to 0 *)
scan_right(st, i, j) ==
    IF j < 0 THEN st
    ELSE scan_right(IF st.grid[i][j] # 0 THEN slide_right(st, i, j) ELSE st, i, j - 1)

RECURSIVE rows_right(_, _)
(* for i in 0..GRID_SIZE: here from i up *)
rows_right(st, i) ==
    IF i >= GRID_SIZE THEN st
    ELSE rows_right(scan_right(st, i, GRID_SIZE - 2), i + 1)

move_right(g) == rows_right([grid |-> g, merged |-> NoMerged, moved |-> FALSE], 0)

(* ---------------------------------------------------------------------- *)
(* move_left                                                               *)
(* ---------------------------------------------------------------------- *)

RECURSIVE slide_left_ormerge(_, _, _)
(* mutant of slide_left: "||" for "&&" in the merge condition *)
slide_left_ormerge(st, i, col) ==
    IF col > 0
    THEN IF st.grid[i][col - 1] = 0
         THEN slide_left_ormerge(
                  [st EXCEPT !.grid[i][col - 1] = st.grid[i][col],
                             !.grid[i][col] = 0,
                             !.moved = TRUE], i, col - 1)
         ELSE IF st.grid[i][col - 1] = st.grid[i][col] \/ ~st.merged[i][col - 1]
              THEN [st EXCEPT !.grid[i][col - 1] = @ * 2,
                              !.grid[i][col] = 0,
                              !.merged[i][col - 1] = TRUE,
                              !.moved = TRUE]
              ELSE st
    ELSE st

RECURSIVE slide_left_mergekeeps(_, _, _)
(* mutant of slide_left: the merge does not clear the cell the tile came from *)
slide_left_mergekeeps(st, i, col) ==
    IF col > 0
    THEN IF st.grid[i][col - 1] = 0
         THEN slide_left_mergekeeps(
                  [st EXCEPT !.grid[i][col - 1] = st.grid[i][col],
                             !.grid[i][col] = 0,
                             !.moved = TRUE], i, col - 1)
         ELSE IF st.grid[i][col - 1] = st.grid[i][col] /\ ~st.merged[i][col - 1]
              THEN [st EXCEPT !.grid[i][col - 1] = @ * 2,
                              !.merged[i][col - 1] = TRUE,
                              !.moved = TRUE]
              ELSE st
    ELSE st

RECURSIVE slide_left(_, _, _)
(* the while loop of move_left *)
slide_left(st, i, col) ==
    IF col > 0
    THEN IF st.grid[i][col - 1] = 0
         THEN slide_left(
                  [st EXCEPT !.grid[i][col - 1] = st.grid[i][col],
                             !.grid[i][col] = 0,
                             !.moved = TRUE], i, col - 1)
         ELSE IF st.grid[i][col - 1] = st.grid[i][col] /\ ~st.merged[i][col - 1]
              THEN [st EXCEPT !.grid[i][col - 1] = @ * 2,
                              !.grid[i][col] = 0,
                              !.merged[i][col - 1] = TRUE,
                              !.moved = TRUE]
              ELSE st
    ELSE st

RECURSIVE scan_left_backwards(_, _, _)
(* mutant of scan_left: the columns are visited farthest-from-the-edge first *)
scan_left_backwards(st, i, j) ==
    IF j >= GRID_SIZE THEN st
    ELSE LET rest == scan_left_backwards(st, i, j + 1)
         IN  IF rest.grid[i][j] # 0 THEN slide_left(rest, i, j) ELSE rest

RECURSIVE scan_left(_, _, _)
(* for j in 1..GRID_SIZE: here from j up *)
scan_left(st, i, j) ==
    IF j >= GRID_SIZE THEN st
    ELSE scan_left(IF st.grid[i][j] # 0 THEN slide_left(st, i, j) ELSE st, i, j + 1)

RECURSIVE rows_left(_, _)
rows_left(st, i) ==
    IF i >= GRID_SIZE THEN st
    ELSE rows_left(scan_left(st, i, 1), i + 1)

move_left(g) == rows_left([grid |-> g, merged |-> NoMerged, moved |-> FALSE], 0)

(* ---------------------------------------------------------------------- *)
(* move_up                                                                 *)
(* ---------------------------------------------------------------------- *)

RECURSIVE slide_up_mergecopy(_, _, _)
(* mutant of slide_up: the merge copies the tile instead of doubling it *)
slide_up_mergecopy(st, row, j) ==
    IF row > 0
    THEN IF st.grid[row - 1][j] = 0
         THEN slide_up_mergecopy(
                  [st EXCEPT !.grid[row - 1][j] = st.grid[row][j],
                             !.grid[row][j] = 0,
                             !.moved = TRUE], row - 1, j)
         ELSE IF st.grid[row - 1][j] = st.grid[row][j] /\ ~st.merged[row - 1][j]
              THEN [st EXCEPT !.grid[row - 1][j] = st.grid[row][j],
                              !.grid[row][j] = 0,
                              !.merged[row - 1][j] = TRUE,
                              !.moved = TRUE]
              ELSE st
    ELSE st

(* mutant of slide_up: "if" for "while", the tile goes up one cell only *)
slide_up_onestep(st, row, j) ==
    IF row > 0
    THEN IF st.grid[row - 1][j] = 0
         THEN [st EXCEPT !.grid[row - 1][j] = st.grid[row][j],
                         !.grid[row][j] = 0,
                         !.moved = TRUE]
         ELSE IF st.grid[row - 1][j] = st.grid[row][j] /\ ~st.merged[row - 1][j]
              THEN [st EXCEPT !.grid[row - 1][j] = @ * 2,
                              !.grid[row][j] = 0,
                              !.merged[row - 1][j] = TRUE,
                              !.moved = TRUE]
              ELSE st
    ELSE st

RECURSIVE slide_up(_, _, _)
(* the while loop of move_up *)
slide_up(st, row, j) ==
    IF row > 0
    THEN IF st.grid[row - 1][j] = 0
         THEN slide_up(
                  [st EXCEPT !.grid[row - 1][j] = st.grid[row][j],
                             !.grid[row][j] = 0,
                             !.moved = TRUE], row - 1, j)
         ELSE IF st.grid[row - 1][j] = st.grid[row][j] /\ ~st.merged[row - 1][j]
              THEN [st EXCEPT !.grid[row - 1][j] = @ * 2,
                              !.grid[row][j] = 0,
                              !.merged[row - 1][j] = TRUE,
                              !.moved = TRUE]
              ELSE st
    ELSE st

RECURSIVE scan_up_movedontile(_, _, _)
(* mutant of scan_up: moved is set for every tile that is visited *)
scan_up_movedontile(st, i, j) ==
    IF i >= GRID_SIZE THEN st
    ELSE scan_up_movedontile(
             IF st.grid[i][j] # 0
             THEN [slide_up(st, i, j) EXCEPT !.moved = TRUE]
             ELSE st, i + 1, j)

RECURSIVE scan_up(_, _, _)
(* for i in 1..GRID_SIZE: here from i up *)
scan_up(st, i, j) ==
    IF i >= GRID_SIZE THEN st
    ELSE scan_up(IF st.grid[i][j] # 0 THEN slide_up(st, i, j) ELSE st, i + 1, j)

RECURSIVE cols_up(_, _)
(* for j in 0..GRID_SIZE: here from j up *)
cols_up(st, j) ==
    IF j >= GRID_SIZE THEN st
    ELSE cols_up(scan_up(st, 1, j), j + 1)

move_up(g) == cols_up([grid |-> g, merged |-> NoMerged, moved |-> FALSE], 0)

(* ---------------------------------------------------------------------- *)
(* move_down                                                               *)
(* ---------------------------------------------------------------------- *)

RECURSIVE slide_down_plustwo(_, _, _)
(* mutant of slide_down: "+= 2" for "*= 2" in the merge *)
slide_down_plustwo(st, row, j) ==
    IF row < GRID_SIZE - 1
    THEN IF st.grid[row + 1][j] = 0
         THEN slide_down_plustwo(
                  [st EXCEPT !.grid[row + 1][j] = st.grid[row][j],
                             !.grid[row][j] = 0,
                             !.moved = TRUE], row + 1, j)
         ELSE IF st.grid[row + 1][j] = st.grid[row][j] /\ ~st.merged[row + 1][j]
              THEN [st EXCEPT !.grid[row + 1][j] = @ + 2,
                              !.grid[row][j] = 0,
                              !.merged[row + 1][j] = TRUE,
                              !.moved = TRUE]
              ELSE st
    ELSE st

RECURSIVE slide_down(_, _, _)
(* the while loop of move_down *)
slide_down(st, row, j) ==
    IF row < GRID_SIZE - 1
    THEN IF st.grid[row + 1][j] = 0
         THEN slide_down(
                  [st EXCEPT !.grid[row + 1][j] = st.grid[row][j],
                             !.grid[row][j] = 0,
                             !.moved = TRUE], row + 1, j)
         ELSE IF st.grid[row + 1][j] = st.grid[row][j] /\ ~st.merged[row + 1][j]
              THEN [st EXCEPT !.grid[row + 1][j] = @ * 2,
                              !.grid[row][j] = 0,
                              !.merged[row + 1][j] = TRUE,
                              !.moved = TRUE]
              ELSE st
    ELSE st

RECURSIVE scan_down_forwards(_, _, _)
(* mutant of scan_down: ".rev()" dropped, the rows are visited from row 0 on *)
scan_down_forwards(st, i, j) ==
    IF i < 0 THEN st
    ELSE LET rest == scan_down_forwards(st, i - 1, j)
         IN  IF rest.grid[i][j] # 0 THEN slide_down(rest, i, j) ELSE rest

RECURSIVE scan_down(_, _, _)
(* for i in (0..GRID_SIZE - 1).rev(): here from i down to 0 *)
scan_down(st, i, j) ==
    IF i < 0 THEN st
    ELSE scan_down(IF st.grid[i][j] # 0 THEN slide_down(st, i, j) ELSE st, i - 1, j)

RECURSIVE cols_down(_, _)
cols_down(st, j) ==
    IF j >= GRID_SIZE THEN st
    ELSE cols_down(scan_down(st, GRID_SIZE - 2, j), j + 1)

move_down(g) == cols_down([grid |-> g, merged |-> NoMerged, moved |-> FALSE], 0)

(* ---------------------------------------------------------------------- *)
(* move_tiles: the dispatcher; the result is the callee's [grid, merged,   *)
(* moved], of which the caller sees grid (in place) and moved (returned)   *)
(* ---------------------------------------------------------------------- *)
move_tiles(g, direction) ==
    CASE direction = "Up"    -> move_up(g)
      [] direction = "Down"  -> move_down(g)
      [] direction = "Left"  -> move_left(g)
      [] direction = "Right" -> move_right(g)

(* ---------------------------------------------------------------------- *)
(* has_moves_available / check_game_over                                   *)
(* ---------------------------------------------------------------------- *)

RECURSIVE scan_moves_noright(_, _, _)
(* mutant of scan_moves: the right-neighbour comparison is missing *)
scan_moves_noright(g, i, j) ==
    IF i >= GRID_SIZE THEN FALSE
    ELSE IF j >= GRID_SIZE THEN scan_moves_noright(g, i + 1, 0)
    ELSE IF g[i][j] = 0 THEN TRUE
    ELSE IF i < GRID_SIZE - 1 /\ g[i][j] = g[i + 1][j] THEN TRUE
    ELSE scan_moves_noright(g, i, j + 1)

RECURSIVE scan_moves_noempty(_, _, _)
(* mutant of scan_moves: an empty cell is not reported as an available move *)
scan_moves_noempty(g, i, j) ==
    IF i >= GRID_SIZE THEN FALSE
    ELSE IF j >= GRID_SIZE THEN scan_moves_noempty(g, i + 1, 0)
    ELSE IF g[i][j] # 0 /\ j < GRID_SIZE - 1 /\ g[i][j] = g[i][j + 1] THEN TRUE
    ELSE IF g[i][j] # 0 /\ i < GRID_SIZE - 1 /\ g[i][j] = g[i + 1][j] THEN TRUE
    ELSE scan_moves_noempty(g, i, j + 1)

RECURSIVE scan_moves_diagonal(_, _, _)
(* mutant of scan_moves: the tile below is read one column too far *)
scan_moves_diagonal(g, i, j) ==
    IF i >= GRID_SIZE THEN FALSE
    ELSE IF j >= GRID_SIZE THEN scan_moves_diagonal(g, i + 1, 0)
    ELSE IF g[i][j] = 0 THEN TRUE
    ELSE IF j < GRID_SIZE - 1 /\ g[i][j] = g[i][j + 1] THEN TRUE
    ELSE IF i < GRID_SIZE - 1 /\ j < GRID_SIZE - 1 /\ g[i][j] = g[i + 1][j + 1] THEN TRUE
    ELSE scan_moves_diagonal(g, i, j + 1)

RECURSIVE scan_moves(_, _, _)
(* the two nested loops of has_moves_available, in row-major order from
   cell (i, j), returning at the first empty cell or equal neighbour pair *)
scan_moves(g, i, j) ==
    IF i >= GRID_SIZE THEN FALSE
    ELSE IF j >= GRID_SIZE THEN scan_moves(g, i + 1, 0)
    ELSE IF g[i][j] = 0 THEN TRUE
    ELSE IF j < GRID_SIZE - 1 /\ g[i][j] = g[i][j + 1] THEN TRUE
    ELSE IF i < GRID_SIZE - 1 /\ g[i][j] = g[i + 1][j] THEN TRUE
    ELSE scan_moves(g, i, j + 1)

has_moves_available(g) == scan_moves(g, 0, 0)

check_game_over(g) == ~has_moves_available(g)

(* ---------------------------------------------------------------------- *)
(* add_random_tile, new, restart_game                                      *)
(* ---------------------------------------------------------------------- *)

(* the empty_cells vector, as a set *)
empty_cells(g) == {c \in Cells : g[c[1]][c[2]] = 0}

(* mutant of add_random_tile: the target is drawn among all cells *)
add_random_tile_anycell(g) ==
    {[g EXCEPT ![c[1]][c[2]] = v] : c \in Cells, v \in {2, 4}}

(* mutant of add_random_tile: with no empty cell, cell (0, 0) is overwritten *)
add_random_tile_overwrite(g) ==
    IF empty_cells(g) = {}
    THEN {[g EXCEPT ![0][0] = v] : v \in {2, 4}}
    ELSE {[g EXCEPT ![c[1]][c[2]] = v] : c \in empty_cells(g), v \in {2, 4}}

(* mutant of add_random_tile: the new tile may also be an 8 *)
add_random_tile_eight(g) ==
    IF empty_cells(g) = {} THEN {g}
    ELSE {[g EXCEPT ![c[1]][c[2]] = v] : c \in empty_cells(g), v \in {2, 4, 8}}

(* the grids add_random_tile can leave: choose() picks any empty cell, the
   random f32 picks 2 or 4; with no empty cell choose() is None and nothing
   is written *)
add_random_tile(g) ==
    IF empty_cells(g) = {}
    THEN {g}
    ELSE {[g EXCEPT ![c[1]][c[2]] = v] : c \in empty_cells(g), v \in {2, 4}}

(* the grids GameState::new() can return (its game_over is false) *)
new == UNION {add_random_tile(g1) : g1 \in add_random_tile(ZeroGrid)}

(* mutant of restart_game: the second add_random_tile call is missing *)
restart_game_onespawn == add_random_tile(ZeroGrid)

(* the grids restart_game can leave (it sets game_over to false) *)
restart_game == UNION {add_random_tile(g1) : g1 \in add_random_tile(ZeroGrid)}

(* ---------------------------------------------------------------------- *)
(* key_down_event (lib.rs)                                                 *)
(* ---------------------------------------------------------------------- *)

(* key.keycode: None, or Some of an arrow, Return, or any other key *)
Keys == {"None", "Up", "Down", "Left", "Right", "Return", "Other"}

(* 'outer: for row in &self.grid { for &cell in row { if cell == 0 ... *)
has_empty(g) == \E i \in Idx : \E j \in Idx : g[i][j] = 0

(* ---------------------------------------------------------------------- *)
(* explored input grids (the grid field is public: the benches set it)     *)
(* ---------------------------------------------------------------------- *)

RECURSIVE Pow2(_)
Pow2(e) == IF e = 0 THEN 1 ELSE 2 * Pow2(e - 1)

TileValues == {Pow2(e) : e \in 1 .. MaxExp}

Lines == [Idx -> {0} \cup TileValues]

(* one line put in every row, or in every column, or rotated by one more
   cell in each successive row (every row and every column a rotation of it) *)
LineGrids ==
    {[i \in Idx |-> [j \in Idx |-> l[j]]] : l \in Lines}
    \cup {[i \in Idx |-> [j \in Idx |-> l[i]]] : l \in Lines}
    \cup {[i \in Idx |-> [j \in Idx |-> l[(i + j) % GRID_SIZE]]] : l \in Lines}

(* full_state.grid[i][j] = if (i + j) % 2 == 0 { 2 } else { 4 }, and its
   other phase *)
Checkerboard(p) == [i \in Idx |-> [j \in Idx |-> IF (i + j + p) % 2 = 0 THEN 2 ELSE 4]]

Checkerboards == {Checkerboard(0), Checkerboard(1)}

(* checkerboards with one cell overwritten by 0 or a tile *)
HoleGrids ==
    {[g EXCEPT ![c[1]][c[2]] = v] : g \in Checkerboards, c \in Cells, v \in {0} \cup TileValues}

(* for i, j: full_state.grid[i][j] = 2 *)
AllTwos == [i \in Idx |-> [j \in Idx |-> 2]]

Adjacent == {p \in Cells \X Cells :
                \/ p[1][1] = p[2][1] /\ p[2][2] = p[1][2] + 1
                \/ p[1][2] = p[2][2] /\ p[2][1] = p[1][1] + 1}

(* checkerboards with one pair of adjacent cells holding the same larger tile:
   full grids with exactly one pair of equal neighbours *)
PairGrids ==
    {[Checkerboard(ph) EXCEPT ![p[1][1]][p[1][2]] = v, ![p[2][1]][p[2][2]] = v] :
        ph \in {0, 1}, p \in Adjacent, v \in TileValues \ {2, 4}}

(* checkerboards with one line shifted by one cell, away from the edge given
   by towards ("low": index 0, "high": index GRID_SIZE - 1): one move and one
   spawn away from the full checkerboard *)
ShiftLine(l, towards) ==
    [k \in Idx |-> IF towards = "low"
                   THEN (IF k = 0 THEN 0 ELSE l[k - 1])
                   ELSE (IF k = GRID_SIZE - 1 THEN 0 ELSE l[k + 1])]

ShiftedGrids ==
    {[i \in Idx |-> [j \in Idx |->
        IF i = k THEN ShiftLine(Checkerboard(ph)[k], t)[j] ELSE Checkerboard(ph)[i][j]]] :
        ph \in {0, 1}, k \in Idx, t \in {"low", "high"}}
    \cup
    {[i \in Idx |-> [j \in Idx |->
        IF j = k THEN ShiftLine([r \in Idx |-> Checkerboard(ph)[r][k]], t)[i]
                 ELSE Checkerboard(ph)[i][j]]] :
        ph \in {0, 1}, k \in Idx, t \in {"low", "high"}}

MoveGrids == LineGrids \cup HoleGrids \cup PairGrids \cup ShiftedGrids

SpawnGrids == HoleGrids \cup PairGrids \cup ShiftedGrids \cup {ZeroGrid, AllTwos}

KeyGrids == Checkerboards \cup PairGrids \cup ShiftedGrids \cup {AllTwos}

AnyMerged(m) == \E i \in Idx : \E j \in Idx : m[i][j]

NoPrev == [op |-> "none", arg |-> "none", ret |-> FALSE, merge |-> FALSE, merged |-> NoMerged]

Last == [op |-> op, arg |-> arg, ret |-> ret, merge |-> AnyMerged(merged), merged |-> merged]

(* ---------------------------------------------------------------------- *)
(* initial states                                                          *)
(* ---------------------------------------------------------------------- *)

InitWith(grids) ==
    /\ grid \in grids
    /\ game_over = FALSE
    /\ op = "init"
    /\ arg = "none"
    /\ ret = FALSE
    /\ merged = NoMerged
    /\ pre = grid
    /\ pre_over = FALSE
    /\ prev = NoPrev
    /\ calls = 0

(* GameState::new() *)
Init == InitWith(new)

(* GameState::new() followed by an assignment to the public grid field *)
MoveInit == InitWith(MoveGrids)

SpawnInit == InitWith(SpawnGrids)

KeyInit == InitWith(KeyGrids)

(* the position of cell (i, j) on the path that runs along row 0, back along
   row 1, and so on *)
SnakeIndex(i, j) == i * GRID_SIZE + (IF i % 2 = 0 THEN j ELSE GRID_SIZE - 1 - j)

(* the grid whose cell at position p of the path holds 2^e[p], or nothing
   where e[p] = 0 *)
SnakeGrid(e) ==
    [i \in Idx |-> [j \in Idx |->
        IF e[SnakeIndex(i, j)] = 0 THEN 0 ELSE Pow2(e[SnakeIndex(i, j)])]]

(* the largest tiles a play can hold, laid along the path: two tiles 2^(N*N)
   followed by 2^(N*N-1), ..., 8 and an empty cell; the full grid 2^(N*N),
   ..., 8, 4, 4 whose pairs merge one after the other; and 2^(N*N+1), ..., 8
   with an empty cell *)
PeakGrids ==
    LET n == GRID_SIZE * GRID_SIZE
        pair == [p \in 0 .. n - 1 |->
                    IF p = 0 THEN n ELSE IF p = n - 1 THEN 0 ELSE n + 1 - p]
        chain == [p \in 0 .. n - 1 |-> IF p = n - 1 THEN 2 ELSE n - p]
        top == [p \in 0 .. n - 1 |-> IF p = n - 1 THEN 0 ELSE n + 1 - p]
        rows == {SnakeGrid(pair), SnakeGrid(chain), SnakeGrid(top)}
    IN  rows \cup {[i \in Idx |-> [j \in Idx |-> g[j][i]]] : g \in rows}

PeakInit == InitWith(PeakGrids)

(* the grids GameState::new() returns whose two tiles are equal neighbours:
   one move merges them into a single tile *)
FreshPairs ==
    {g \in new : \E p \in Adjacent :
                    /\ g[p[1][1]][p[1][2]] # 0
                    /\ g[p[1][1]][p[1][2]] = g[p[2][1]][p[2][2]]}

(* a game in play: fresh from GameState::new(), or late in the game with a
   full or nearly full grid on which a move is still possible, all with the
   flag still false *)
PlayGrids == FreshPairs \cup PairGrids \cup ShiftedGrids \cup {AllTwos}

PlayInit == InitWith(PlayGrids)

(* any grid set up through the public field, in a game whose flag is in
   either state, as restart_game may find them *)
RestartInit ==
    /\ grid \in Checkerboards \cup ShiftedGrids \cup {ZeroGrid, AllTwos}
    /\ game_over \in BOOLEAN
    /\ op = "init"
    /\ arg = "none"
    /\ ret = FALSE
    /\ merged = NoMerged
    /\ pre = grid
    /\ pre_over = game_over
    /\ prev = NoPrev
    /\ calls = 0

(* ---------------------------------------------------------------------- *)
(* actions                                                                 *)
(* ---------------------------------------------------------------------- *)

(* mutant of move_tiles: the merged array is a field that outlives the call *)
move_tiles_keepmerged(g, m, direction) ==
    LET st == [grid |-> g, merged |-> m, moved |-> FALSE]
    IN  CASE direction = "Up"    -> cols_up(st, 0)
          [] direction = "Down"  -> cols_down(st, 0)
          [] direction = "Left"  -> rows_left(st, 0)
          [] direction = "Right" -> rows_right(st, 0)

(* mutant of MoveTiles: the call starts from the flags the last call left *)
MoveTiles_keepmerged(direction) ==
    /\ calls < MaxCalls
    /\ LET r == move_tiles_keepmerged(grid, merged, direction)
       IN  /\ grid' = r.grid
           /\ ret' = r.moved
           /\ merged' = r.merged
    /\ op' = "move"
    /\ arg' = direction
    /\ pre' = grid
    /\ pre_over' = game_over
    /\ prev' = Last
    /\ calls' = calls + 1
    /\ UNCHANGED game_over

(* state.move_tiles(direction) *)
MoveTiles(direction) ==
    /\ calls < MaxCalls
    /\ LET r == move_tiles(grid, direction)
       IN  /\ grid' = r.grid
           /\ ret' = r.moved
           /\ merged' = r.merged
    /\ op' = "move"
    /\ arg' = direction
    /\ pre' = grid
    /\ pre_over' = game_over
    /\ prev' = Last
    /\ calls' = calls + 1
    /\ UNCHANGED game_over

(* state.add_random_tile() *)
AddRandomTile ==
    /\ calls < MaxCalls
    /\ grid' \in add_random_tile(grid)
    /\ op' = "spawn"
    /\ arg' = "none"
    /\ ret' = FALSE
    /\ merged' = NoMerged
    /\ pre' = grid
    /\ pre_over' = game_over
    /\ prev' = NoPrev
    /\ calls' = calls + 1
    /\ UNCHANGED game_over

(* state.restart_game(); pre is the cleared grid the two spawns start from *)
RestartGame ==
    /\ grid' \in restart_game
    /\ game_over' = FALSE
    /\ op' = "restart"
    /\ arg' = "none"
    /\ ret' = FALSE
    /\ merged' = NoMerged
    /\ pre' = ZeroGrid
    /\ pre_over' = game_over
    /\ prev' = NoPrev
    /\ UNCHANGED calls

(* key_down_event: no keycode, or game over and a key other than Return, or
   a key that is no arrow: nothing changes *)
KeyIgnored(key) ==
    /\ \/ key = "None"
       \/ game_over /\ key # "Return"
       \/ ~game_over /\ key \notin Direction
    /\ op' = "key"
    /\ arg' = key
    /\ ret' = FALSE
    /\ merged' = NoMerged
    /\ pre' = grid
    /\ pre_over' = game_over
    /\ prev' = NoPrev
    /\ UNCHANGED <<grid, game_over, calls>>

(* mutant of KeyRestart: Return restarts the game whether it is over or not *)
KeyRestart_anytime(key) ==
    /\ key = "Return"
    /\ grid' \in restart_game
    /\ game_over' = FALSE
    /\ op' = "key"
    /\ arg' = key
    /\ ret' = FALSE
    /\ merged' = NoMerged
    /\ pre' = ZeroGrid
    /\ pre_over' = game_over
    /\ prev' = NoPrev
    /\ UNCHANGED calls

(* mutant of KeyRestart: any key restarts a game that is over *)
KeyRestart_anykey(key) ==
    /\ key # "None"
    /\ game_over
    /\ grid' \in restart_game
    /\ game_over' = FALSE
    /\ op' = "key"
    /\ arg' = key
    /\ ret' = FALSE
    /\ merged' = NoMerged
    /\ pre' = ZeroGrid
    /\ pre_over' = game_over
    /\ prev' = NoPrev
    /\ UNCHANGED calls

(* key_down_event: game over and Return: restart_game() *)
KeyRestart(key) ==
    /\ key = "Return"
    /\ game_over
    /\ grid' \in restart_game
    /\ game_over' = FALSE
    /\ op' = "key"
    /\ arg' = key
    /\ ret' = FALSE
    /\ merged' = NoMerged
    /\ pre' = ZeroGrid
    /\ pre_over' = game_over
    /\ prev' = NoPrev
    /\ UNCHANGED calls

(* mutant of KeyArrow: the add_random_tile call is left out *)
KeyArrow_nospawn(key) ==
    /\ key \in Direction
    /\ ~game_over
    /\ LET r == move_tiles(grid, key)
       IN  /\ ret' = r.moved
           /\ merged' = r.merged
           /\ IF r.moved
              THEN /\ calls < MaxTurns
                   /\ calls' = calls + 1
                   /\ grid' = r.grid
                   /\ game_over' = IF ~has_empty(grid') /\ check_game_over(grid')
                                   THEN TRUE
                                   ELSE game_over
              ELSE /\ grid' = r.grid
                   /\ UNCHANGED <<game_over, calls>>
    /\ op' = "key"
    /\ arg' = key
    /\ pre' = grid
    /\ pre_over' = game_over
    /\ prev' = NoPrev

(* mutant of KeyArrow: a full grid ends the game, check_game_over() not asked *)
KeyArrow_fullisover(key) ==
    /\ key \in Direction
    /\ ~game_over
    /\ LET r == move_tiles(grid, key)
       IN  /\ ret' = r.moved
           /\ merged' = r.merged
           /\ IF r.moved
              THEN /\ calls < MaxTurns
                   /\ calls' = calls + 1
                   /\ grid' \in add_random_tile(r.grid)
                   /\ game_over' = IF ~has_empty(grid')
                                   THEN TRUE
                                   ELSE game_over
              ELSE /\ grid' = r.grid
                   /\ UNCHANGED <<game_over, calls>>
    /\ op' = "key"
    /\ arg' = key
    /\ pre' = grid
    /\ pre_over' = game_over
    /\ prev' = NoPrev

(* mutant of KeyArrow: the terminal check runs before the spawn *)
KeyArrow_checkfirst(key) ==
    /\ key \in Direction
    /\ ~game_over
    /\ LET r == move_tiles(grid, key)
       IN  /\ ret' = r.moved
           /\ merged' = r.merged
           /\ IF r.moved
              THEN /\ calls < MaxTurns
                   /\ calls' = calls + 1
                   /\ grid' \in add_random_tile(r.grid)
                   /\ game_over' = IF ~has_empty(r.grid) /\ check_game_over(r.grid)
                                   THEN TRUE
                                   ELSE game_over
              ELSE /\ grid' = r.grid
                   /\ UNCHANGED <<game_over, calls>>
    /\ op' = "key"
    /\ arg' = key
    /\ pre' = grid
    /\ pre_over' = game_over
    /\ prev' = NoPrev

(* key_down_event: an arrow key while the game is not over *)
KeyArrow(key) ==
    /\ key \in Direction
    /\ ~game_over
    /\ LET r == move_tiles(grid, key)
       IN  /\ ret' = r.moved
           /\ merged' = r.merged
           /\ IF r.moved
              THEN /\ calls < MaxTurns
                   /\ calls' = calls + 1
                   /\ grid' \in add_random_tile(r.grid)
                   /\ game_over' = IF ~has_empty(grid') /\ check_game_over(grid')
                                   THEN TRUE
                                   ELSE game_over
              ELSE /\ grid' = r.grid
                   /\ UNCHANGED <<game_over, calls>>
    /\ op' = "key"
    /\ arg' = key
    /\ pre' = grid
    /\ pre_over' = game_over
    /\ prev' = NoPrev

KeyDown(key) == KeyIgnored(key) \/ KeyRestart(key) \/ KeyArrow(key)

(* the binary's key_down_event (src/main.rs): no keycode, or a key that is
   no arrow: nothing changes; the binary's GameState has no game_over field *)
MainKeyIgnored(key) ==
    /\ key \notin Direction
    /\ op' = "mainkey"
    /\ arg' = key
    /\ ret' = FALSE
    /\ merged' = NoMerged
    /\ pre' = grid
    /\ pre_over' = game_over
    /\ prev' = NoPrev
    /\ UNCHANGED <<grid, game_over, calls>>

(* the binary's key_down_event: an arrow key: move_tiles, its result dropped,
   then add_random_tile *)
MainKeyArrow(key) ==
    /\ key \in Direction
    /\ calls < MaxTurns
    /\ LET r == move_tiles(grid, key)
       IN  /\ ret' = r.moved
           /\ merged' = r.merged
           /\ grid' \in add_random_tile(r.grid)
    /\ calls' = calls + 1
    /\ op' = "mainkey"
    /\ arg' = key
    /\ pre' = grid
    /\ pre_over' = game_over
    /\ prev' = NoPrev
    /\ UNCHANGED game_over

MainKeyDown(key) == MainKeyIgnored(key) \/ MainKeyArrow(key)

(* ---------------------------------------------------------------------- *)
(* specifications                                                          *)
(* ---------------------------------------------------------------------- *)

(* the game as the event loop runs it *)
Next == \E key \in Keys : KeyDown(key)

Spec == Init /\ [][Next]_vars

(* move_tiles called on set-up grids *)
MoveNext == \E direction \in Direction : MoveTiles(direction)

MoveSpec == MoveInit /\ [][MoveNext]_vars

(* add_random_tile called on set-up grids *)
SpawnNext == AddRandomTile

SpawnSpec == SpawnInit /\ [][SpawnNext]_vars

(* key events on set-up grids *)
KeyNext == \E key \in Keys : KeyDown(key)

KeySpec == KeyInit /\ [][KeyNext]_vars

(* restart_game called on set-up states *)
RestartNext == RestartGame

RestartSpec == RestartInit /\ [][RestartNext]_vars

(* the public operations called after GameState::new(): move_tiles and
   add_random_tile in any order, and restart_game before them (restart_game
   discards the grid it finds, so a later restart reaches the same grids) *)
ApiNext ==
    \/ /\ calls < MaxApiCalls
       /\ \/ \E direction \in Direction : MoveTiles(direction)
          \/ AddRandomTile
    \/ /\ calls = 0
       /\ RestartGame

ApiSpec == Init /\ [][ApiNext]_vars

(* the binary (src/main.rs) from its GameState::new() *)
MainNext == \E key \in Keys : MainKeyDown(key)

MainSpec == Init /\ [][MainNext]_vars

(* key events on a game in play *)
PlayNext == \E key \in Keys : KeyDown(key)

PlaySpec == PlayInit /\ [][PlayNext]_vars

(* move_tiles and add_random_tile called in any order on set-up grids *)
StepNext ==
    \/ \E direction \in Direction : MoveTiles(direction)
    \/ AddRandomTile

StepSpec == SpawnInit /\ [][StepNext]_vars

(* key events on grids that hold the largest tiles *)
PeakNext == \E key \in Keys : KeyDown(key)

PeakSpec == PeakInit /\ [][PeakNext]_vars

(* ====================================================================== *)
(* Properties                                                              *)
(* ====================================================================== *)

At(g, c) == g[c[1]][c[2]]

Differs(g, h) == {c \in Cells : At(g, c) # At(h, c)}

RECURSIVE SumFrom(_, _, _)
(* the sum of the cells of g from cell (i, j) on, in row-major order *)
SumFrom(g, i, j) ==
    IF i >= GRID_SIZE THEN 0
    ELSE IF j >= GRID_SIZE THEN SumFrom(g, i + 1, 0)
    ELSE g[i][j] + SumFrom(g, i, j + 1)

SumGrid(g) == SumFrom(g, 0, 0)

TilesIn(g, cs) == Cardinality({c \in cs : At(g, c) # 0})

(* the cells of line k along the axis of a direction *)
LineCells(direction, k) ==
    IF direction \in {"Left", "Right"}
    THEN {<<k, j>> : j \in Idx}
    ELSE {<<i, k>> : i \in Idx}

(* line k of g as a sequence that starts at the edge the tiles slide toward *)
LineToward(g, direction, k) ==
    [n \in 1 .. GRID_SIZE |->
        CASE direction = "Left"  -> g[k][n - 1]
          [] direction = "Right" -> g[k][GRID_SIZE - n]
          [] direction = "Up"    -> g[n - 1][k]
          [] direction = "Down"  -> g[GRID_SIZE - n][k]]

RECURSIVE MergePairs(_)
(* a tile merges with the next one when they are equal; the merged tile and
   the absorbed tile take part in no other merge *)
MergePairs(s) ==
    IF Len(s) < 2 THEN s
    ELSE IF s[1] = s[2]
         THEN <<2 * s[1]>> \o MergePairs(Tail(Tail(s)))
         ELSE <<s[1]>> \o MergePairs(Tail(s))

(* the reference result for one line *)
RefLine(s) ==
    LET t == MergePairs(SelectSeq(s, LAMBDA v : v # 0))
    IN  [n \in 1 .. GRID_SIZE |-> IF n <= Len(t) THEN t[n] ELSE 0]

(* orthogonally adjacent cells, in any of the four neighbour directions *)
Neighbours(c, d) ==
    \/ c[1] = d[1] /\ (c[2] = d[2] + 1 \/ d[2] = c[2] + 1)
    \/ c[2] = d[2] /\ (c[1] = d[1] + 1 \/ d[1] = c[1] + 1)

NeighbourPairs == {p \in Cells \X Cells : Neighbours(p[1], p[2])}

EqualNeighbours(g) == {p \in NeighbourPairs : At(g, p[1]) = At(g, p[2])}

(* C1: move_tiles returns true iff the grid after the call differs from the
   grid before it in at least one cell (so on false the grid is unchanged) *)
C1_MovedIffChanged ==
    op = "move" => (ret <=> Differs(grid, pre) # {})

C1_Witness ==
    /\ op = "move"
    /\ ret
    /\ Differs(grid, pre) # {}
    /\ ~AnyMerged(merged)

(* C2: in one move_tiles call each cell absorbs at most one merge and a
   merged tile does not merge again: per line, the number of tiles that
   disappear is the number of cells flagged in the merge-tracking matrix,
   a flagged cell holds the double of a value the line held at least twice,
   every tile left is a value of the line or the double of one, and
   v,v,v,v becomes two tiles 2v *)
C2_MergeOnce ==
    op = "move" =>
        \A k \in Idx :
            LET cs == LineCells(arg, k)
                vals == {At(pre, c) : c \in cs} \ {0}
            IN  /\ \A c \in cs :
                       At(grid, c) # 0 =>
                           \/ At(grid, c) \in vals
                           \/ \E v \in vals : At(grid, c) = 2 * v
                /\ TilesIn(pre, cs) - TilesIn(grid, cs)
                       = Cardinality({c \in cs : At(merged, c)})
                /\ \A c \in cs :
                       At(merged, c) =>
                           \E v \in vals :
                               /\ At(grid, c) = 2 * v
                               /\ Cardinality({d \in cs : At(pre, d) = v}) >= 2
                /\ \A v \in vals :
                       (\A c \in cs : At(pre, c) = v) =>
                           /\ TilesIn(grid, cs) = 2
                           /\ \A c \in cs : At(grid, c) \in {0, 2 * v}

C2_Witness ==
    /\ op = "move"
    /\ \E k \in Idx :
           LET cs == LineCells(arg, k)
           IN  /\ \A c \in cs : At(pre, c) = 2
               /\ TilesIn(grid, cs) = 2
               /\ \A c \in cs : At(grid, c) \in {0, 4}

(* C3: after move_tiles every line equals the reference result for the line
   before it: the tiles in order from the target edge, equal neighbours
   merged once, packed against the target edge; the row [2,2,4,0] moved
   Right becomes [0,0,4,4] and the call returns true *)
C3_Reference ==
    op = "move" =>
        /\ \A k \in Idx :
               LineToward(grid, arg, k) = RefLine(LineToward(pre, arg, k))
        /\ \A i \in Idx :
               (arg = "Right" /\ pre[i] = [j \in Idx |-> <<2, 2, 4, 0>>[j + 1]]) =>
                   /\ grid[i] = [j \in Idx |-> <<0, 0, 4, 4>>[j + 1]]
                   /\ ret

C3_Witness ==
    /\ op = "move"
    /\ arg = "Right"
    /\ \E i \in Idx :
           /\ pre[i] = [j \in Idx |-> <<2, 2, 4, 0>>[j + 1]]
           /\ grid[i] = [j \in Idx |-> <<0, 0, 4, 4>>[j + 1]]
    /\ ret

(* C4 as stated: the second of two successive move_tiles calls in the same
   direction returns false *)
C4_SecondMoveFalse ==
    (op = "move" /\ prev.op = "move" /\ prev.arg = arg) => ~ret

(* C4 as amended: the second of two successive move_tiles calls in the same
   direction returns false when the first call performed no merge *)
C4_SecondMoveFalseAfterNoMerge ==
    (op = "move" /\ prev.op = "move" /\ prev.arg = arg /\ ~prev.merge) => ~ret

C4_Witness ==
    /\ op = "move"
    /\ prev.op = "move"
    /\ prev.arg = arg
    /\ prev.ret
    /\ ~prev.merge
    /\ ~ret

(* C5 as stated: the sum of the tiles after move_tiles is at least the sum
   before, and they are equal iff no merge occurred *)
C5_SumEqualIffNoMerge ==
    op = "move" =>
        /\ SumGrid(grid) >= SumGrid(pre)
        /\ (SumGrid(grid) = SumGrid(pre)) <=> ~AnyMerged(merged)

(* C5 as amended: the sum of the tiles after move_tiles equals the sum
   before, whether or not a merge occurred *)
C5_SumUnchanged ==
    op = "move" => SumGrid(grid) = SumGrid(pre)

C5_Witness ==
    /\ op = "move"
    /\ AnyMerged(merged)
    /\ SumGrid(grid) = SumGrid(pre)

(* C6: has_moves_available is true iff some cell is 0 or two orthogonally
   adjacent cells, in any of the four neighbour directions, are equal; the
   all-2 grid has moves and the 2/4 checkerboard is game over *)
C6_MovesAvailable ==
    /\ has_moves_available(grid) <=> (has_empty(grid) \/ EqualNeighbours(grid) # {})
    /\ grid = AllTwos => has_moves_available(grid)
    /\ grid \in Checkerboards =>
           ~has_moves_available(grid) /\ check_game_over(grid)

(* a full grid whose only equal neighbours are one pair in the last row *)
C6_Witness ==
    /\ ~has_empty(grid)
    /\ \E j \in Idx :
           EqualNeighbours(grid) = {<<<<GRID_SIZE - 1, j>>, <<GRID_SIZE - 1, j + 1>>>>,
                                    <<<<GRID_SIZE - 1, j + 1>>, <<GRID_SIZE - 1, j>>>>}
    /\ has_moves_available(grid)

(* C7: check_game_over negates has_moves_available and is false on every grid
   with an empty cell, so after an arrow key that moved, game_over is what an
   ungated check_game_over() on the grid after the spawn returns *)
C7_GateEquivalent ==
    /\ check_game_over(grid) <=> ~has_moves_available(grid)
    /\ has_empty(grid) => ~check_game_over(grid)
    /\ (op = "key" /\ arg \in Direction /\ ret) =>
           (game_over <=> (pre_over \/ check_game_over(grid)))

C7_Witness ==
    /\ op = "key"
    /\ arg \in Direction
    /\ ret
    /\ ~has_empty(grid)
    /\ game_over

(* C8: on a grid with no move available, move_tiles returns false and leaves
   the grid unchanged, in each direction *)
C8_StuckGridStays ==
    (op = "move" /\ ~has_moves_available(pre)) => (~ret /\ grid = pre)

C8_Witness ==
    /\ op = "move"
    /\ ~has_moves_available(pre)
    /\ pre \notin Checkerboards
    /\ ~ret
    /\ grid = pre

(* C9: add_random_tile on a grid with an empty cell changes exactly one cell,
   which was 0 and now holds 2 or 4; the number of tiles grows by one *)
C9_SpawnOneTile ==
    (op = "spawn" /\ has_empty(pre)) =>
        /\ Cardinality(Differs(grid, pre)) = 1
        /\ \A c \in Differs(grid, pre) : At(pre, c) = 0 /\ At(grid, c) \in {2, 4}
        /\ \A c \in Cells : At(pre, c) # 0 => At(grid, c) = At(pre, c)
        /\ TilesIn(grid, Cells) = TilesIn(pre, Cells) + 1

C9_Witness ==
    /\ op = "spawn"
    /\ has_empty(pre)
    /\ TilesIn(pre, Cells) > 0
    /\ \E c \in Cells : At(pre, c) = 0 /\ At(grid, c) = 4

(* C10: add_random_tile on a grid with no empty cell changes neither the
   grid nor game_over *)
C10_SpawnFullNoOp ==
    (op = "spawn" /\ ~has_empty(pre)) => (grid = pre /\ game_over = pre_over)

C10_Witness ==
    /\ op = "spawn"
    /\ ~has_empty(pre)
    /\ grid = pre

(* exactly two tiles, each 2 or 4, every other cell 0 *)
TwoStartTiles(g) ==
    /\ TilesIn(g, Cells) = 2
    /\ \A c \in Cells : At(g, c) \in {0, 2, 4}

(* C11: GameState::new(), and restart_game() from any grid and flag, leave
   exactly two tiles, each 2 or 4, all other cells 0, and game_over false *)
C11_FreshGame ==
    /\ \A g \in new : TwoStartTiles(g)
    /\ op = "restart" => (TwoStartTiles(grid) /\ ~game_over)

C11_Witness ==
    /\ op = "restart"
    /\ pre_over
    /\ ~game_over
    /\ TwoStartTiles(grid)
    /\ \E c \in Cells : At(grid, c) = 4

RECURSIVE IsPowerOfTwo(_)
(* v is 2, 4, 8, ... *)
IsPowerOfTwo(v) == v = 2 \/ (v > 2 /\ v % 2 = 0 /\ IsPowerOfTwo(v \div 2))

(* C12: in every state reached from GameState::new() by move_tiles,
   add_random_tile and restart_game calls, every cell is 0 or a power of two
   that is at least 2 *)
C12_PowersOfTwo ==
    \A c \in Cells : At(grid, c) = 0 \/ IsPowerOfTwo(At(grid, c))

C12_Witness ==
    /\ op = "move"
    /\ AnyMerged(merged)
    /\ \E c \in Cells : At(grid, c) = 8
    /\ \A c \in Cells : At(grid, c) = 0 \/ IsPowerOfTwo(At(grid, c))

(* h is g with one more tile, a 2 or a 4, in a cell that is empty in g *)
OneTileSpawned(g, h) ==
    \E c \in Cells :
        /\ At(g, c) = 0
        /\ At(h, c) \in {2, 4}
        /\ \A d \in Cells \ {c} : At(h, d) = At(g, d)

(* C13: an arrow key while the game is not over: the move runs first; a tile
   is spawned exactly when the move changed the grid; the flag is set from
   the grid after the spawn, exactly when it is full and has no equal
   neighbours; a move that changes nothing leaves grid and flag alone *)
C13_ArrowTurn ==
    (op = "key" /\ ~pre_over /\ arg \in Direction) =>
        LET r == move_tiles(pre, arg)
        IN  /\ ret = r.moved
            /\ ret => /\ OneTileSpawned(r.grid, grid)
                      /\ game_over <=> (TilesIn(grid, Cells) = GRID_SIZE * GRID_SIZE
                                          /\ check_game_over(grid))
            /\ ~ret => (grid = pre /\ ~game_over)

C13_Witness ==
    /\ op = "key" /\ ~pre_over /\ arg \in Direction
    /\ ret
    /\ game_over
    /\ OneTileSpawned(move_tiles(pre, arg).grid, grid)
    /\ ~check_game_over(move_tiles(pre, arg).grid)

(* C14: in the binary's key handler an arrow key spawns a tile only if
   move_tiles reported a change; a press whose move changes nothing spawns
   nothing and leaves the grid unchanged *)
C14_MainSpawnOnlyIfMoved ==
    (op = "mainkey" /\ arg \in Direction) =>
        IF ret
        THEN OneTileSpawned(move_tiles(pre, arg).grid, grid)
        ELSE grid = pre

(* no empty cell lies between a tile of the line and the edge it starts at *)
Packed(s) == \A n \in 1 .. GRID_SIZE - 1 : s[n] = 0 => s[n + 1] = 0

(* no two neighbouring tiles of the line are equal *)
NoEqualPair(s) == \A n \in 1 .. GRID_SIZE - 1 : s[n] # 0 => s[n] # s[n + 1]

(* every line of g along the direction's axis is packed against the target
   edge and has no two adjacent equal tiles *)
Settled(g, direction) ==
    \A k \in Idx : /\ Packed(LineToward(g, direction, k))
                   /\ NoEqualPair(LineToward(g, direction, k))

(* C15: a move on a grid whose lines are all packed against the target edge
   with no two adjacent equal tiles leaves the grid unchanged and returns
   false *)
C15_SettledStays ==
    (op = "move" /\ Settled(pre, arg)) => (grid = pre /\ ~ret)

C15_Witness ==
    /\ op = "move" /\ arg = "Right"
    /\ Settled(pre, arg)
    /\ \E i \in Idx : pre[i] = [j \in Idx |-> IF j % 2 = 0 THEN 2 ELSE 4]
    /\ grid = pre /\ ~ret

(* the number of tiles of a line *)
TilesOfLine(s) == Cardinality({n \in 1 .. GRID_SIZE : s[n] # 0})

(* the value of the tile of a line that has exactly one *)
TileOfLine(s) == CHOOSE v \in {s[n] : n \in 1 .. GRID_SIZE} : v # 0

(* C16: a line with exactly one tile: after the move the tile is in the cell
   at the target edge with its value, the rest of the line is 0, and the line
   makes the move count as moved exactly when the tile was not at the edge
   (so a grid whose lines have at most one tile each reports moved exactly
   when one of those tiles was away from the edge) *)
C16_SingleTileSlides ==
    op = "move" =>
        /\ \A k \in Idx :
               LET s == LineToward(pre, arg, k)
                   t == LineToward(grid, arg, k)
               IN  TilesOfLine(s) = 1 =>
                       /\ t[1] = TileOfLine(s)
                       /\ \A n \in 2 .. GRID_SIZE : t[n] = 0
                       /\ s[1] = 0 => ret
                       /\ s[1] # 0 => t = s
        /\ (\A k \in Idx : TilesOfLine(LineToward(pre, arg, k)) <= 1) =>
               (ret <=> \E k \in Idx : /\ TilesOfLine(LineToward(pre, arg, k)) = 1
                                       /\ LineToward(pre, arg, k)[1] = 0)

C16_Witness ==
    /\ op = "move" /\ arg = "Up" /\ ret
    /\ \A k \in Idx : TilesOfLine(LineToward(pre, arg, k)) = 1
    /\ \E k \in Idx : LineToward(pre, arg, k)[GRID_SIZE] # 0
    /\ \E k \in Idx : LineToward(pre, arg, k)[1] # 0
    /\ \A k \in Idx : LineToward(grid, arg, k)[1] # 0

(* the horizontal mirror image of a grid *)
Mirror(g) == [i \in Idx |-> [j \in Idx |-> g[i][GRID_SIZE - 1 - j]]]

(* the transpose of a grid *)
Transpose(g) == [i \in Idx |-> [j \in Idx |-> g[j][i]]]

(* C17: Left is the mirror image of Right on the mirror image, Up is the
   transpose of Left on the transpose, Down is the transpose of Right on the
   transpose, each pair with the same moved flag *)
C17_MovesSymmetric ==
    /\ (op = "move" /\ arg = "Left") =>
           /\ grid = Mirror(move_right(Mirror(pre)).grid)
           /\ ret = move_right(Mirror(pre)).moved
    /\ (op = "move" /\ arg = "Up") =>
           /\ grid = Transpose(move_left(Transpose(pre)).grid)
           /\ ret = move_left(Transpose(pre)).moved
    /\ (op = "move" /\ arg = "Down") =>
           /\ grid = Transpose(move_right(Transpose(pre)).grid)
           /\ ret = move_right(Transpose(pre)).moved

C17_Witness ==
    /\ op = "move" /\ arg = "Down" /\ ret
    /\ AnyMerged(merged)
    /\ Mirror(pre) # pre
    /\ Transpose(pre) # pre
    /\ grid # Transpose(grid)
    /\ grid = Transpose(move_right(Transpose(pre)).grid)

(* the cells that absorbed a merge in the call before this one and absorb
   one again in this call *)
MergedAgain == {c \in Cells : prev.merged[c[1]][c[2]] /\ merged[c[1]][c[2]]}

(* C18: the grid and the flag a move_tiles call produces depend on the grid
   it finds and the direction only, whatever calls came before: the merge
   flags of the call before have no effect, a cell they marked merges again
   wherever the grid alone makes it merge *)
C18_NoMergeMemory ==
    op = "move" =>
        LET r == move_tiles(pre, arg)
        IN  /\ grid = r.grid
            /\ ret = r.moved
            /\ \A c \in Cells : merged[c[1]][c[2]] = r.merged[c[1]][c[2]]

C18_Witness ==
    /\ op = "move" /\ prev.op = "move"
    /\ MergedAgain # {}
    /\ \E c \in MergedAgain : At(grid, c) = 2 * At(pre, c)

(* C19 (the spawn cell is uniform among the empty cells, the value is 2 with
   probability 0.9 and 4 with probability 0.1) is a statement about
   probabilities; add_random_tile above gives the set of possible outcomes *)

(* C20: once game_over is true, a key event with any key but Return leaves
   the grid and the flag as they are, and the flag becomes false only in the
   key event with Return, which restarts the game *)
C20_GameOverLatch ==
    [][game_over =>
          IF arg' = "Return"
          THEN ~game_over' /\ TwoStartTiles(grid')
          ELSE game_over' /\ grid' = grid]_vars

C20_Witness ==
    /\ op = "key" /\ arg \in Direction
    /\ pre_over /\ game_over
    /\ grid = pre
    /\ check_game_over(grid)

(* C21: between key events game_over is true exactly when
   has_moves_available() is false *)
C21_OverIffNoMoves ==
    game_over <=> ~has_moves_available(grid)

C21_Witness ==
    /\ op = "key" /\ arg \in Direction /\ ret
    /\ ~pre_over /\ has_moves_available(pre)
    /\ game_over /\ ~has_moves_available(grid)

(* the tiles of a line in order, the empty cells left out *)
TilesOf(s) == SelectSeq(s, LAMBDA v : v # 0)

RECURSIVE Collapses(_, _)
(* t is s with some pairs of equal neighbours replaced by their double, the
   order of the tiles kept *)
Collapses(s, t) ==
    IF s = <<>> \/ t = <<>> THEN s = t
    ELSE \/ s[1] = t[1] /\ Collapses(Tail(s), Tail(t))
         \/ /\ Len(s) >= 2
            /\ s[1] = s[2]
            /\ t[1] = 2 * s[1]
            /\ Collapses(Tail(Tail(s)), Tail(t))

(* C22: after move_tiles every line along the move axis is packed against
   the target edge, and its tiles are the tiles before the move in the same
   order, with merged pairs replaced by their double: no tile has passed
   another *)
C22_PackedInOrder ==
    op = "move" =>
        \A k \in Idx :
            /\ Packed(LineToward(grid, arg, k))
            /\ Collapses(TilesOf(LineToward(pre, arg, k)),
                         TilesOf(LineToward(grid, arg, k)))

C22_Witness ==
    /\ op = "move" /\ ret
    /\ \E k \in Idx :
           /\ ~Packed(LineToward(pre, arg, k))
           /\ Len(TilesOf(LineToward(pre, arg, k))) = 3
           /\ Len(TilesOf(LineToward(grid, arg, k))) = 2
           /\ Packed(LineToward(grid, arg, k))

(* the directions in which move_tiles would change g *)
MovingDirections(g) == {d \in Direction : move_tiles(g, d).moved}

(* C23: on a grid with at least one tile, has_moves_available() true means
   move_tiles returns true for at least one direction *)
C23_DetectorSound ==
    (TilesIn(grid, Cells) >= 1 /\ has_moves_available(grid)) =>
        MovingDirections(grid) # {}

C23_Witness ==
    /\ op = "move" /\ ~ret
    /\ TilesIn(grid, Cells) >= 1
    /\ has_moves_available(grid)
    /\ arg \notin MovingDirections(grid)
    /\ MovingDirections(grid) # {}

(* C24: when move_tiles returns true the grid has an empty cell afterwards,
   so the add_random_tile call that follows adds exactly one tile whatever
   it draws *)
C24_MovedLeavesRoom ==
    (op = "move" /\ ret) =>
        /\ empty_cells(grid) # {}
        /\ \A h \in add_random_tile(grid) :
               TilesIn(h, Cells) = TilesIn(grid, Cells) + 1

C24_Witness ==
    /\ op = "move" /\ ret
    /\ empty_cells(pre) = {}
    /\ Cardinality(empty_cells(grid)) = 1
    /\ \A h \in add_random_tile(grid) : empty_cells(h) = {}

(* the number of cells that absorbed a merge *)
Merges(m) == Cardinality({c \in Cells : At(m, c)})

(* C25: move_tiles keeps the sum of the cells, with or without merges, and
   lowers the number of tiles by the number of merges; add_random_tile is
   the only call that raises the sum, by 2 or by 4 *)
C25_SumAndTileCount ==
    /\ op = "move" =>
           /\ SumGrid(grid) = SumGrid(pre)
           /\ TilesIn(grid, Cells) = TilesIn(pre, Cells) - Merges(merged)
    /\ op = "spawn" =>
           SumGrid(grid) - SumGrid(pre) \in (IF empty_cells(pre) = {} THEN {0} ELSE {2, 4})
    /\ SumGrid(grid) > SumGrid(pre) => op = "spawn"

C25_Witness ==
    /\ op = "move" /\ prev.op = "spawn"
    /\ Merges(merged) >= 2
    /\ SumGrid(grid) = SumGrid(pre)
    /\ TilesIn(grid, Cells) = TilesIn(pre, Cells) - Merges(merged)

(* C26: between key events the grid holds at least two tiles *)
C26_AtLeastTwoTiles ==
    TilesIn(grid, Cells) >= 2

C26_Witness ==
    /\ op = "key" /\ arg \in Direction /\ ret
    /\ TilesIn(pre, Cells) = 2
    /\ TilesIn(move_tiles(pre, arg).grid, Cells) = 1
    /\ TilesIn(grid, Cells) = 2

(* ---------------------------------------------------------------------- *)
(* a play to its end: key events with no restart, followed while the sum   *)
(* of the tiles is below MaxSum                                            *)
(* ---------------------------------------------------------------------- *)

(* mutant of LiveArrow: the add_random_tile call is left out *)
LiveArrow_nospawn(key) ==
    /\ key \in Direction
    /\ ~game_over
    /\ LET r == move_tiles(grid, key)
       IN  /\ ret' = r.moved
           /\ merged' = r.merged
           /\ IF r.moved
              THEN /\ SumGrid(grid) < MaxSum
                   /\ grid' = r.grid
                   /\ game_over' = IF ~has_empty(grid') /\ check_game_over(grid')
                                   THEN TRUE
                                   ELSE game_over
              ELSE /\ grid' = r.grid
                   /\ UNCHANGED game_over
    /\ op' = "key"
    /\ arg' = key
    /\ pre' = grid
    /\ pre_over' = game_over
    /\ prev' = NoPrev
    /\ UNCHANGED calls

(* key_down_event: an arrow key while the game is not over *)
LiveArrow(key) ==
    /\ key \in Direction
    /\ ~game_over
    /\ LET r == move_tiles(grid, key)
       IN  /\ ret' = r.moved
           /\ merged' = r.merged
           /\ IF r.moved
              THEN /\ SumGrid(grid) < MaxSum
                   /\ grid' \in add_random_tile(r.grid)
                   /\ game_over' = IF ~has_empty(grid') /\ check_game_over(grid')
                                   THEN TRUE
                                   ELSE game_over
              ELSE /\ grid' = r.grid
                   /\ UNCHANGED game_over
    /\ op' = "key"
    /\ arg' = key
    /\ pre' = grid
    /\ pre_over' = game_over
    /\ prev' = NoPrev
    /\ UNCHANGED calls

(* late in a play: a 2/4 checkerboard with one row a cell off and its last
   2 missing, one move and one spawned 2 away from the stuck checkerboard *)
LiveGrids ==
    {g \in ShiftedGrids :
        /\ SumGrid(g) = SumGrid(Checkerboard(0)) - 2
        /\ \E k \in Idx : \A i \in Idx \ {k} :
               g[i] = Checkerboard(0)[i] \/ g[i] = Checkerboard(1)[i]}

LiveInit == InitWith(LiveGrids)

(* any key, the Return that would restart a finished game left out *)
LiveNext ==
    \/ \E key \in Keys : KeyIgnored(key)
    \/ \E key \in Direction : LiveArrow(key)

(* the event loop keeps delivering key events *)
LiveSpec == LiveInit /\ [][LiveNext]_vars /\ WF_vars(LiveNext)

(* the last key event was an arrow key whose move changed the grid *)
JustTurned == op = "key" /\ arg \in Direction /\ ret

(* the play is over, or has reached the sum up to which it is followed *)
PlayDone == game_over \/ SumGrid(grid) >= MaxSum

(* the player's part: while the play is not done, an arrow key whose move
   changes the grid comes again and again *)
PlayerKeepsMoving == []<>(PlayDone \/ JustTurned)

(* C27: if the player, while game_over is false, eventually presses an arrow
   key whose move changes the grid, a play with no restart reaches
   game_over = true, or else its tile sum grows to MaxSum: no play makes
   grid-changing turns for ever below a given sum *)
C27_PlayEnds ==
    PlayerKeepsMoving => <>PlayDone

C27_Witness ==
    /\ op = "key" /\ arg \in Direction /\ ret
    /\ ~pre_over /\ game_over
    /\ SumGrid(grid) \in {SumGrid(pre) + 2, SumGrid(pre) + 4}
    /\ SumGrid(grid) < MaxSum

(* C28: while game_over is false a key event with no keycode or with a key
   that is no arrow, Return included, leaves the grid and the flag as they
   are *)
C28_OtherKeysIgnored ==
    (op = "key" /\ ~pre_over /\ arg \notin Direction) =>
        (grid = pre /\ ~game_over)

C28_Witness ==
    /\ op = "key" /\ arg = "Return"
    /\ ~pre_over /\ ~game_over
    /\ grid = pre
    /\ TilesIn(grid, Cells) >= 2

RECURSIVE Exponent(_)
(* e for the tile 2^e *)
Exponent(v) == IF v <= 1 THEN 0 ELSE 1 + Exponent(v \div 2)

(* every tile 2^e leaves room for what it took to build it: e plus the
   number of tiles at least as large is at most N*N + 2 *)
RankBound(g) ==
    \A c \in Cells :
        At(g, c) # 0 =>
            Exponent(At(g, c)) + Cardinality({d \in Cells : At(g, d) >= At(g, c)})
                <= GRID_SIZE * GRID_SIZE + 2

(* C29: no tile exceeds 2^(N*N+1), 131072 on the 4 x 4 grid, far below the
   u32 range; the turns keep the rank bound from which this follows *)
C29_TilesBounded ==
    /\ RankBound(grid)
    /\ \A c \in Cells : At(grid, c) <= Pow2(GRID_SIZE * GRID_SIZE + 1)

C29_Witness ==
    /\ op = "key" /\ arg \in Direction /\ ret
    /\ AnyMerged(merged)
    /\ \A c \in Cells : At(pre, c) < Pow2(GRID_SIZE * GRID_SIZE + 1)
    /\ \E c \in Cells : At(grid, c) = Pow2(GRID_SIZE * GRID_SIZE + 1)

====
